---------------------------- MODULE Spec2Model ----------------------------
(***************************************************************************)
(* A model of src/MovebankAPI.py: the license-aware request protocol       *)
(* (callMovebankAPI) and the record transformations (transformRawGPS,      *)
(* transformRawACC).                                                       *)
(*                                                                         *)
(* Representation of Python values:                                        *)
(*   str        the sequence of its code points (integers 0..1114111)      *)
(*   bytes      a sequence of integers 0..255                              *)
(*   int        an integer                                                 *)
(*   float      the exact rational it denotes, an infinity or not-a-number;*)
(*              the double of IEEE 754 where its rounding decides a result *)
(*   tuple/list a sequence                                                 *)
(*   dict       a record (the keys are those the code writes as literals)  *)
(*   an outcome [ok |-> TRUE, value |-> v] for a normal return and         *)
(*              [ok |-> FALSE, exc |-> "<ExceptionName>"] for a raise      *)
(***************************************************************************)
EXTENDS Integers, Sequences, FiniteSets, TLC

(***************************************************************************)
(* str and bytes                                                           *)
(***************************************************************************)

\* The printable ASCII characters with the code points 32..95 and 97..126, in
\* order, as they are written in this module.
PrintableLow ==
  " !\"#$%&'()*+,-./0123456789:;<=>?@ABCDEFGHIJKLMNOPQRSTUVWXYZ[\\]^_"

PrintableHigh == "abcdefghijklmnopqrstuvwxyz{|}~"

\* The i-th character of a text written in this module.
CharAt(s, i) == SubSeq(s, i, i)

\* The code point of a character written in this module: a printable ASCII
\* character other than the grave accent, or one of \t \n \f \r.
Ord(ch) ==
  CASE ch = "\t" -> 9
    [] ch = "\n" -> 10
    [] ch = "\f" -> 12
    [] ch = "\r" -> 13
    [] \E k \in 1..64 : CharAt(PrintableLow, k) = ch ->
         31 + CHOOSE k \in 1..64 : CharAt(PrintableLow, k) = ch
    [] \E k \in 1..30 : CharAt(PrintableHigh, k) = ch ->
         96 + CHOOSE k \in 1..30 : CharAt(PrintableHigh, k) = ch

\* The str that a literal of the source denotes, the literal being written here
\* as the text s of such characters.
Text(s) == [i \in 1..Len(s) |-> Ord(CharAt(s, i))]

\* needle in haystack, for two str.
Contains(haystack, needle) ==
  \E i \in 1..(Len(haystack) - Len(needle) + 1) :
    SubSeq(haystack, i, i + Len(needle) - 1) = needle

\* The sequences ss[lo], ..., ss[hi] joined into one.
RECURSIVE JoinRange(_, _, _)
JoinRange(ss, lo, hi) ==
  IF lo > hi THEN <<>>
  ELSE IF lo = hi THEN ss[lo]
  ELSE JoinRange(ss, lo, (lo + hi) \div 2) \o JoinRange(ss, (lo + hi) \div 2 + 1, hi)

\* ''.join(ss), also for a list of bytes or of lists.
Join(ss) == JoinRange(ss, 1, Len(ss))

\* '%02x' % b
Hex2(b) ==
  <<Text("0123456789abcdef")[(b \div 16) + 1],
    Text("0123456789abcdef")[(b % 16) + 1]>>

\* str(b) of a bytes object b, i.e. repr(b): b'...' with Python's escapes. The
\* quote is ' (39) unless the bytes hold a ' and no " (34).
BytesRepr(b) ==
  LET hasSingle == \E i \in 1..Len(b) : b[i] = 39
      hasDouble == \E i \in 1..Len(b) : b[i] = 34
      quote == IF hasSingle /\ ~hasDouble THEN 34 ELSE 39
      Esc(c) ==
        CASE c = quote \/ c = 92 -> Text("\\") \o <<c>>
          [] c = 9 -> Text("\\t")
          [] c = 10 -> Text("\\n")
          [] c = 13 -> Text("\\r")
          [] (c < 32 /\ c \notin {9, 10, 13}) \/ c >= 127 -> Text("\\x") \o Hex2(c)
          [] OTHER -> <<c>>
  IN Text("b") \o <<quote>> \o Join([i \in 1..Len(b) |-> Esc(b[i])]) \o <<quote>>

\* The byte c is not the first of a character in UTF-8.
IsContinuation(c) == c >= 128 /\ c <= 191

\* The number of bytes of the character in UTF-8 whose first byte is c, 0 when
\* no character starts with c.
Utf8Length(c) ==
  IF c < 128 THEN 1
  ELSE IF c >= 194 /\ c <= 223 THEN 2
  ELSE IF c >= 224 /\ c <= 239 THEN 3
  ELSE IF c >= 240 /\ c <= 244 THEN 4
  ELSE 0

\* The bytes of b from position i on start with one character in strict UTF-8
\* (no overlong form, no surrogate, nothing above 1114111) and another
\* character, or the end, follows it.
Utf8CharacterAt(b, i) ==
  /\ Utf8Length(b[i]) > 0
  /\ i + Utf8Length(b[i]) - 1 <= Len(b)
  /\ \A k \in (i + 1)..(i + Utf8Length(b[i]) - 1) : IsContinuation(b[k])
  /\ (b[i] = 224 => b[i + 1] >= 160)
  /\ (b[i] = 237 => b[i + 1] <= 159)
  /\ (b[i] = 240 => b[i + 1] >= 144)
  /\ (b[i] = 244 => b[i + 1] <= 143)
  /\ (i + Utf8Length(b[i]) <= Len(b) => ~IsContinuation(b[i + Utf8Length(b[i])]))

\* The code point of the character that starts at position i of b.
Utf8CodePoint(b, i) ==
  CASE Utf8Length(b[i]) = 1 -> b[i]
    [] Utf8Length(b[i]) = 2 -> (b[i] % 32) * 64 + (b[i + 1] % 64)
    [] Utf8Length(b[i]) = 3 ->
         (b[i] % 16) * 4096 + (b[i + 1] % 64) * 64 + (b[i + 2] % 64)
    [] Utf8Length(b[i]) = 4 ->
         (b[i] % 8) * 262144 + (b[i + 1] % 64) * 4096 + (b[i + 2] % 64) * 64
           + (b[i + 3] % 64)

\* b.decode('utf-8'): the outcome is the decoded str, or UnicodeDecodeError
\* when b is not strict UTF-8: when it starts within a character, or a byte
\* that should start a character does not.
DecodeUtf8(b) ==
  IF /\ (Len(b) > 0 => ~IsContinuation(b[1]))
     /\ \A i \in 1..Len(b) : ~IsContinuation(b[i]) => Utf8CharacterAt(b, i)
  THEN [ok |-> TRUE,
        value |-> Join([i \in 1..Len(b) |->
                          IF IsContinuation(b[i]) THEN <<>>
                          ELSE <<Utf8CodePoint(b, i)>>])]
  ELSE [ok |-> FALSE, exc |-> "UnicodeDecodeError"]

\* The bytes of the character c in UTF-8 (c is no surrogate).
Utf8Bytes(c) ==
  IF c < 128 THEN <<c>>
  ELSE IF c < 2048 THEN <<192 + (c \div 64), 128 + (c % 64)>>
  ELSE IF c < 65536
       THEN <<224 + (c \div 4096), 128 + ((c \div 64) % 64), 128 + (c % 64)>>
  ELSE <<240 + (c \div 262144), 128 + ((c \div 4096) % 64),
         128 + ((c \div 64) % 64), 128 + (c % 64)>>

\* s.encode('utf-8') for a str s without surrogates.
EncodeUtf8(s) == Join([i \in 1..Len(s) |-> Utf8Bytes(s[i])])

(***************************************************************************)
(* hashlib.md5(b).hexdigest(), RFC 1321. A 32-bit word is a pair           *)
(* <<high 16 bits, low 16 bits>>, so that no intermediate value leaves the *)
(* integers TLC computes with.                                             *)
(***************************************************************************)

RECURSIVE BitAnd(_, _)
BitAnd(a, b) ==
  IF a = 0 \/ b = 0 THEN 0
  ELSE ((a % 2) * (b % 2)) + 2 * BitAnd(a \div 2, b \div 2)

BitOr(a, b) == a + b - BitAnd(a, b)

BitXor(a, b) == a + b - 2 * BitAnd(a, b)

WAnd(x, y) == <<BitAnd(x[1], y[1]), BitAnd(x[2], y[2])>>

WOr(x, y) == <<BitOr(x[1], y[1]), BitOr(x[2], y[2])>>

WXor(x, y) == <<BitXor(x[1], y[1]), BitXor(x[2], y[2])>>

WNot(x) == <<65535 - x[1], 65535 - x[2]>>

\* Addition modulo 2^32.
WAdd(x, y) ==
  LET lo == x[2] + y[2]
      hi == x[1] + y[1] + (lo \div 65536)
  IN <<hi % 65536, lo % 65536>>

\* Rotation to the left by s bits, 0 < s < 32.
WRotl(x, s) ==
  LET y == IF s >= 16 THEN <<x[2], x[1]>> ELSE x
      r == s % 16
      p == 2 ^ (16 - r)
  IN IF r = 0 THEN y
     ELSE <<(y[1] % p) * (2 ^ r) + (y[2] \div p),
            (y[2] % p) * (2 ^ r) + (y[1] \div p)>>

\* floor(2^32 * abs(sin(i + 1))), i = 0..63.
MD5K ==
  <<
    <<55146, 42104>>, <<59591, 46934>>, <<9248, 28891>>, <<49597, 52974>>,
    <<62844, 4015>>, <<18311, 50730>>, <<43056, 17939>>, <<64838, 38145>>,
    <<27008, 39128>>, <<35652, 63407>>, <<65535, 23473>>, <<35164, 55230>>,
    <<27536, 4386>>, <<64920, 29075>>, <<42617, 17294>>, <<18868, 2081>>,
    <<63006, 9570>>, <<49216, 45888>>, <<9822, 23121>>, <<59830, 51114>>,
    <<54831, 4189>>, <<580, 5203>>, <<55457, 59009>>, <<59347, 64456>>,
    <<8673, 52710>>, <<49975, 2006>>, <<62677, 3463>>, <<17754, 5357>>,
    <<43491, 59653>>, <<64751, 41976>>, <<26479, 729>>, <<36138, 19594>>,
    <<65530, 14658>>, <<34673, 63105>>, <<28061, 24866>>, <<64997, 14348>>,
    <<42174, 59972>>, <<19422, 53161>>, <<63163, 19296>>, <<48831, 48240>>,
    <<10395, 32454>>, <<60065, 10234>>, <<54511, 12421>>, <<1160, 7429>>,
    <<55764, 53305>>, <<59099, 39397>>, <<8098, 31992>>, <<50348, 22117>>,
    <<62505, 8772>>, <<17194, 65431>>, <<43924, 9127>>, <<64659, 41017>>,
    <<25947, 22979>>, <<36620, 52370>>, <<65519, 62589>>, <<34180, 24017>>,
    <<28584, 32335>>, <<65068, 59104>>, <<41729, 17172>>, <<19976, 4513>>,
    <<63315, 32386>>, <<48442, 62005>>, <<10967, 53947>>, <<60294, 54161>>
  >>

\* The per-round rotation amounts.
MD5S ==
  <<
    7, 12, 17, 22, 7, 12, 17, 22, 7, 12, 17, 22, 7, 12, 17, 22,
    5, 9, 14, 20, 5, 9, 14, 20, 5, 9, 14, 20, 5, 9, 14, 20,
    4, 11, 16, 23, 4, 11, 16, 23, 4, 11, 16, 23, 4, 11, 16, 23,
    6, 10, 15, 21, 6, 10, 15, 21, 6, 10, 15, 21, 6, 10, 15, 21
  >>

\* The message with its padding: 0x80, zeros up to 56 mod 64, and the length in
\* bits as 8 little-endian bytes (lengths below 2^28 bytes).
MD5Pad(b) ==
  LET n == Len(b)
      zeros == (119 - (n % 64)) % 64
      bits == n * 8
      LenByte(k) == IF k <= 3 THEN (bits \div (256 ^ k)) % 256 ELSE 0
  IN b \o <<128>> \o [i \in 1..zeros |-> 0] \o [k \in 1..8 |-> LenByte(k - 1)]

\* Word j (0..15) of the 64-byte block starting after offset off, little-endian.
MD5Word(p, off, j) ==
  LET q == off + 4 * j
  IN <<p[q + 4] * 256 + p[q + 3], p[q + 2] * 256 + p[q + 1]>>

\* One of the 64 steps on the state st = <<A, B, C, D>> with message words m.
MD5Step(st, m, i) ==
  LET a == st[1]
      b == st[2]
      c == st[3]
      d == st[4]
      f == CASE i < 16 -> WOr(WAnd(b, c), WAnd(WNot(b), d))
             [] i >= 16 /\ i < 32 -> WOr(WAnd(d, b), WAnd(WNot(d), c))
             [] i >= 32 /\ i < 48 -> WXor(b, WXor(c, d))
             [] OTHER -> WXor(c, WOr(b, WNot(d)))
      g == CASE i < 16 -> i
             [] i >= 16 /\ i < 32 -> (5 * i + 1) % 16
             [] i >= 32 /\ i < 48 -> (3 * i + 5) % 16
             [] OTHER -> (7 * i) % 16
      sum == WAdd(WAdd(a, f), WAdd(MD5K[i + 1], m[g + 1]))
  IN <<d, WAdd(b, WRotl(sum, MD5S[i + 1])), b, c>>

\* The steps i..63 applied to st. (The test on the state's length makes the
\* model checker compute each step's state before it goes on to the next step.)
RECURSIVE MD5Steps(_, _, _)
MD5Steps(st, m, i) ==
  IF i = 64 \/ Len(st) # 4 THEN st
  ELSE MD5Steps(MD5Step(st, m, i), m, i + 1)

\* The compression of one block into the chaining value h.
MD5Block(h, p, off) ==
  LET m == [j \in 1..16 |-> MD5Word(p, off, j - 1)]
      st == MD5Steps(h, m, 0)
  IN [k \in 1..4 |-> WAdd(h[k], st[k])]

\* The lowercase hexadecimal digest of the bytes b.
MD5Hex(b) ==
  LET p == MD5Pad(b)
      H[n \in 0..(Len(p) \div 64)] ==
        IF n = 0
        THEN <<<<26437, 8961>>, <<61389, 43913>>, <<39098, 56574>>, <<4146, 21622>>>>
        ELSE MD5Block(H[n - 1], p, 64 * (n - 1))
      h == H[Len(p) \div 64]
      WHex(w) == Hex2(w[2] % 256) \o Hex2(w[2] \div 256)
                   \o Hex2(w[1] % 256) \o Hex2(w[1] \div 256)
  IN WHex(h[1]) \o WHex(h[2]) \o WHex(h[3]) \o WHex(h[4])

(***************************************************************************)
(* int(s) and float(s) of a str s. The float that float(s) returns is      *)
(* modelled by the exact rational that s denotes, in lowest terms:         *)
(* [num |-> n, den |-> d]; its rounding to a double is DoubleOf, below.    *)
(* The sign of zero is not modelled, and the numbers are those the         *)
(* integers of TLC hold.                                                   *)
(***************************************************************************)

\* The characters c with chr(c).isspace(): what str.split() splits at and what
\* \s of a regular expression matches.
WhiteSpace ==
  (9..13) \cup (28..32) \cup {133, 160, 5760} \cup (8192..8202)
    \cup {8232, 8233, 8239, 8287, 12288}

IsSpace(c) == c \in WhiteSpace

\* The code points of the digit zero of each script of Unicode (the characters
\* with a decimal value, str.isdecimal, of Python 3.11); the digits 1..9 of a
\* script follow its zero.
DecimalZeros ==
  { 48, 1632, 1776, 1984, 2406, 2534, 2662, 2790, 2918, 3046, 3174, 3302,
    3430, 3558, 3664, 3792, 3872, 4160, 4240, 6112, 6160, 6470, 6608, 6784,
    6800, 6992, 7088, 7232, 7248, 42528, 43216, 43264, 43472, 43504, 43600,
    44016, 65296, 66720, 68912, 69734, 69872, 69942, 70096, 70384, 70736,
    70864, 71248, 71360, 71472, 71904, 72016, 72784, 73040, 73120, 92768,
    92864, 93008, 120782, 120792, 120802, 120812, 120822, 123200, 123632,
    125264, 130032 }

\* c is a decimal digit: what int and float read as a digit and what \d of a
\* regular expression matches.
IsDigit(c) == \E z \in DecimalZeros : z <= c /\ c <= z + 9

\* The value 0..9 of a decimal digit.
DigitValue(c) == c - (CHOOSE z \in DecimalZeros : z <= c /\ c <= z + 9)

\* s without the whitespace that int and float skip at its two ends: the
\* characters of WhiteSpace but the four separators 28..31.
StripNumber(s) ==
  LET kept == {i \in 1..Len(s) : ~IsSpace(s[i]) \/ s[i] \in 28..31}
  IN IF kept = {} THEN <<>>
     ELSE SubSeq(s, CHOOSE i \in kept : \A j \in kept : i <= j,
                    CHOOSE i \in kept : \A j \in kept : i >= j)

RECURSIVE Gcd(_, _)
Gcd(a, b) == IF b = 0 THEN a ELSE Gcd(b, a % b)

Abs(n) == IF n < 0 THEN -n ELSE n

\* The float n/d, d > 0, in lowest terms.
Finite(n, d) ==
  LET g == Gcd(Abs(n), d)
  IN [num |-> n \div g, den |-> d \div g]

NaN == [nan |-> TRUE]

\* A run of digits as int and float read it: digits, with single underscores
\* between digits.
IsDigitRun(t) ==
  /\ Len(t) > 0
  /\ \A i \in 1..Len(t) :
       \/ IsDigit(t[i])
       \/ /\ t[i] = Ord("_")
          /\ i > 1 /\ i < Len(t)
          /\ IsDigit(t[i - 1]) /\ IsDigit(t[i + 1])

\* The digits of a run, without its underscores.
RunDigits(t) ==
  LET D[i \in 0..Len(t)] ==
        IF i = 0 THEN <<>>
        ELSE IF t[i] = Ord("_") THEN D[i - 1] ELSE Append(D[i - 1], t[i])
  IN D[Len(t)]

\* The number that a str of digits denotes.
DigitsValue(t) ==
  LET V[i \in 0..Len(t)] ==
        IF i = 0 THEN 0 ELSE 10 * V[i - 1] + DigitValue(t[i])
  IN V[Len(t)]

SignOf(t) == IF Len(t) > 0 /\ t[1] = Ord("-") THEN -1 ELSE 1

Unsigned(t) ==
  IF Len(t) > 0 /\ t[1] \in {Ord("+"), Ord("-")} THEN SubSeq(t, 2, Len(t))
  ELSE t

\* int of the stripped str t.
IntOfStripped(t) ==
  IF IsDigitRun(Unsigned(t))
  THEN [ok |-> TRUE, value |-> SignOf(t) * DigitsValue(RunDigits(Unsigned(t)))]
  ELSE [ok |-> FALSE, exc |-> "ValueError"]

\* int(s): the outcome is the integer, or ValueError.
ParseInt(s) == IntOfStripped(StripNumber(s))

\* t is the word w (given in lower case) in some mix of upper and lower case
\* of the ASCII letters.
IsWord(t, w) ==
  /\ Len(t) = Len(w)
  /\ \A i \in 1..Len(t) :
       (IF t[i] >= 65 /\ t[i] <= 90 THEN t[i] + 32 ELSE t[i]) = w[i]

\* The position of the first character of t that is in the set chars, 0 if none.
FirstIndex(t, chars) ==
  IF \E i \in 1..Len(t) : t[i] \in chars
  THEN CHOOSE i \in 1..Len(t) :
         /\ t[i] \in chars
         /\ \A j \in 1..(i - 1) : t[j] \notin chars
  ELSE 0

\* The part of t before its first character in chars (all of t if none).
Before(t, chars) ==
  IF FirstIndex(t, chars) = 0 THEN t ELSE SubSeq(t, 1, FirstIndex(t, chars) - 1)

\* The part of t after its first character in chars (none gives the str none).
After(t, chars, none) ==
  IF FirstIndex(t, chars) = 0 THEN none ELSE SubSeq(t, FirstIndex(t, chars) + 1, Len(t))

\* The float with the digits whole before the point, frac after it and the
\* exponent expo, or ValueError.
FloatOfFields(sign, whole, frac, expo) ==
  IF /\ Len(whole) > 0 \/ Len(frac) > 0
     /\ Len(whole) = 0 \/ IsDigitRun(whole)
     /\ Len(frac) = 0 \/ IsDigitRun(frac)
     /\ IsDigitRun(Unsigned(expo))
  THEN LET digits == DigitsValue(RunDigits(whole) \o RunDigits(frac))
           scale == SignOf(expo) * DigitsValue(RunDigits(Unsigned(expo)))
                      - Len(RunDigits(frac))
       IN [ok |-> TRUE,
           value |-> IF scale >= 0
                     THEN Finite(sign * digits * (10 ^ scale), 1)
                     ELSE Finite(sign * digits, 10 ^ (-scale))]
  ELSE [ok |-> FALSE, exc |-> "ValueError"]

\* The float with the mantissa mant and the exponent expo.
FloatOfParts(sign, mant, expo) ==
  FloatOfFields(sign, Before(mant, {Ord(".")}), After(mant, {Ord(".")}, <<>>), expo)

\* float of the str u that follows the sign: a word for an infinity or for
\* not-a-number, or a decimal number (no exponent is the exponent 0).
FloatOfUnsigned(sign, u) ==
  IF IsWord(u, Text("inf")) \/ IsWord(u, Text("infinity"))
  THEN [ok |-> TRUE, value |-> [inf |-> sign]]
  ELSE IF IsWord(u, Text("nan"))
       THEN [ok |-> TRUE, value |-> NaN]
       ELSE FloatOfParts(sign, Before(u, {Ord("e"), Ord("E")}),
                         After(u, {Ord("e"), Ord("E")}, Text("0")))

\* float of the stripped str t.
FloatOfStripped(t) == FloatOfUnsigned(SignOf(t), Unsigned(t))

\* float(s): the outcome is the float, or ValueError.
ParseFloat(s) == FloatOfStripped(StripNumber(s))

(***************************************************************************)
(* Binary floating point. Where the rounding of a float decides a result   *)
(* (the microsecond of a timestamp), the float is computed as the double   *)
(* of IEEE 754 that the code computes: a double is                         *)
(* [neg |-> b, mant |-> m, exp |-> e], the number (-1)^b * m * 2^e with    *)
(* m < 2^53 + 1. The mantissa m is a natural number beyond the integers of *)
(* TLC: the sequence of its digits to the base 2^15, the lowest first and  *)
(* the highest not 0.                                                      *)
(***************************************************************************)

Base == 2 ^ 15

\* The i-th digit of the natural number a.
Limb(a, i) == IF i <= Len(a) THEN a[i] ELSE 0

\* The digits a without the zeros at the high end.
Trim(a) ==
  IF \A i \in 1..Len(a) : a[i] = 0 THEN <<>>
  ELSE SubSeq(a, 1, CHOOSE i \in 1..Len(a) :
                      a[i] # 0 /\ \A j \in (i + 1)..Len(a) : a[j] = 0)

\* The natural number n of TLC as digits.
Big(n) == Trim(<<n % Base, (n \div Base) % Base, n \div (Base * Base)>>)

\* The natural number a as an integer of TLC (a < 2^31).
Small(a) == Limb(a, 1) + Base * Limb(a, 2) + Base * Base * Limb(a, 3)

\* -1, 0 or 1 as a < b, a = b or a > b.
BigCmp(a, b) ==
  IF Len(a) # Len(b) THEN (IF Len(a) < Len(b) THEN -1 ELSE 1)
  ELSE IF a = b THEN 0
  ELSE IF LET i == CHOOSE k \in 1..Len(a) :
                     a[k] # b[k] /\ \A j \in (k + 1)..Len(a) : a[j] = b[j]
          IN a[i] < b[i]
       THEN -1 ELSE 1

BigAdd(a, b) ==
  LET n == (IF Len(a) > Len(b) THEN Len(a) ELSE Len(b)) + 1
      Carry[i \in 0..n] ==
        IF i = 0 THEN 0
        ELSE (Limb(a, i) + Limb(b, i) + Carry[i - 1]) \div Base
  IN Trim([i \in 1..n |-> (Limb(a, i) + Limb(b, i) + Carry[i - 1]) % Base])

\* a - b, for a >= b.
BigSub(a, b) ==
  LET Borrow[i \in 0..Len(a)] ==
        IF i = 0 THEN 0
        ELSE IF a[i] - Limb(b, i) - Borrow[i - 1] < 0 THEN 1 ELSE 0
  IN Trim([i \in 1..Len(a) |->
             (a[i] - Limb(b, i) - Borrow[i - 1] + Base) % Base])

\* a * k, for a digit k (or k = Base).
BigMulSmall(a, k) ==
  LET n == Len(a) + 1
      Carry[i \in 0..n] ==
        IF i = 0 THEN 0 ELSE (Limb(a, i) * k + Carry[i - 1]) \div Base
  IN Trim([i \in 1..n |-> (Limb(a, i) * k + Carry[i - 1]) % Base])

\* a * Base^k
ShiftLimbs(a, k) == IF a = <<>> THEN <<>> ELSE [i \in 1..k |-> 0] \o a

BigMul(a, b) ==
  LET Sum[j \in 0..Len(b)] ==
        IF j = 0 THEN <<>>
        ELSE BigAdd(Sum[j - 1], ShiftLimbs(BigMulSmall(a, b[j]), j - 1))
  IN Sum[Len(b)]

\* a * 2^k
ShiftLeft(a, k) == ShiftLimbs(BigMulSmall(a, 2 ^ (k % 15)), k \div 15)

\* a \div 2^k
ShiftRight(a, k) ==
  LET rest == IF k \div 15 >= Len(a) THEN <<>> ELSE SubSeq(a, k \div 15 + 1, Len(a))
      low == 2 ^ (k % 15)
  IN Trim([i \in 1..Len(rest) |->
             (rest[i] \div low) + (Limb(rest, i + 1) % low) * (Base \div low)])

\* a % 2^k
LowBits(a, k) == BigSub(a, ShiftLeft(ShiftRight(a, k), k))

\* The number of binary digits of a.
BitLength(a) ==
  IF a = <<>> THEN 0
  ELSE 15 * (Len(a) - 1)
         + CHOOSE k \in 1..15 : 2 ^ (k - 1) <= a[Len(a)] /\ a[Len(a)] < 2 ^ k

\* q, or q + 1, as the rest that was cut off below q is less than a half of
\* the last place (cmp = -1), a half (0: q becomes even) or more (1).
RoundUp(q, cmp) ==
  IF cmp > 0 \/ (cmp = 0 /\ Limb(q, 1) % 2 = 1) THEN BigAdd(q, <<1>>) ELSE q

\* a * 2^e without the lowest k binary digits of a, rounded to the nearest, a
\* tie to the even.
RoundAt(a, e, k) ==
  [mant |-> RoundUp(ShiftRight(a, k),
                    BigCmp(LowBits(a, k), ShiftLeft(<<1>>, k - 1))),
   exp |-> e + k]

\* a * 2^e rounded to the 53 binary digits of a double.
RoundBits(a, e) ==
  IF BitLength(a) <= 53 THEN [mant |-> a, exp |-> e]
  ELSE RoundAt(a, e, BitLength(a) - 53)

\* The largest digit k with k * b <= r, for r < Base * b and a b whose highest
\* digit is Base / 2 or more: the quotient of the top digits, which is the
\* digit or up to 2 more.
QuotientDigit(r, b) ==
  LET top == (Limb(r, Len(b) + 1) * Base + Limb(r, Len(b))) \div b[Len(b)]
      guess == IF top > Base - 1 THEN Base - 1 ELSE top
  IN IF BigCmp(BigMulSmall(b, guess), r) <= 0 THEN guess
     ELSE IF BigCmp(BigMulSmall(b, guess - 1), r) <= 0 THEN guess - 1
     ELSE guess - 2

\* n steps of the long division of r by b, r < b, after the digits q of the
\* quotient: a step finds the next digit from the rest with one digit more.
\* The result is the quotient Base^n * r \div b with one binary digit more,
\* which tells whether there is a rest: the quotient and all of the rest, as
\* far as rounding goes.
RECURSIVE DivDigits(_, _, _, _)

DivStep(shifted, b, n, q, digit) ==
  DivDigits(BigSub(shifted, BigMulSmall(b, digit)), b, n - 1, <<digit>> \o q)

DivDigits(r, b, n, q) ==
  IF n = 0 THEN BigAdd(BigMulSmall(Trim(q), 2), IF r = <<>> THEN <<>> ELSE <<1>>)
  ELSE DivStep(ShiftLimbs(r, 1), b, n, q, QuotientDigit(ShiftLimbs(r, 1), b))

\* a / b rounded to a double, for a, b > 0 and the j with
\* 1/4 <= a / (b * 2^j) < 1: the two are shifted to that ratio, and by pad
\* binary digits more, and divided to 4 digits.
RoundShifted(a, b, j, pad) ==
  RoundBits(DivDigits(ShiftLeft(a, (IF j < 0 THEN -j ELSE 0) + pad),
                      ShiftLeft(b, (IF j > 0 THEN j ELSE 0) + pad),
                      4, <<>>),
            j - 61)

\* a / b rounded to a double, for a, b > 0. The binary digits added to both
\* make whole digits to the base of the shifted b, which has as many binary
\* digits as b or one more than a.
RoundQuotient(a, b) ==
  RoundShifted(a, b, BitLength(a) - BitLength(b) + 1,
               IF BitLength(a) + 1 > BitLength(b)
               THEN (15 - ((BitLength(a) + 1) % 15)) % 15
               ELSE (15 - (BitLength(b) % 15)) % 15)

\* The double of sign neg that is r, a mantissa and an exponent, times 2^e.
Signed(neg, r, e) == [neg |-> neg, mant |-> r.mant, exp |-> r.exp + e]

\* The double of the float f that is not 0: the quotient f.num / f.den,
\* rounded.
DoubleOf(f) == Signed(f.num < 0, RoundQuotient(Big(Abs(f.num)), Big(f.den)), 0)

\* 1 / d for a double d that is not 0.
DoubleReciprocal(d) == Signed(d.neg, RoundQuotient(<<1>>, d.mant), -d.exp)

\* d * x for a double d and an integer x >= 0.
DoubleTimes(d, x) == Signed(d.neg, RoundBits(BigMul(d.mant, Big(x)), d.exp), 0)

\* The double p.mant * 2^p.exp, not negative, rounded to an integer, a tie to
\* the even.
RoundToInteger(p) ==
  IF p.exp >= 0 THEN ShiftLeft(p.mant, p.exp)
  ELSE RoundAt(p.mant, p.exp, -p.exp).mant

\* timedelta(seconds=d) for a double d, as the seconds and microseconds that
\* it adds: the whole seconds of d are kept; the rest of d, which is
\* frac * 2^d.exp, is multiplied by 10^6, as a double, and then rounded to
\* whole microseconds.
Timedelta(d) ==
  LET sign == IF d.neg THEN -1 ELSE 1
      whole == IF d.exp >= 0 THEN ShiftLeft(d.mant, d.exp)
               ELSE ShiftRight(d.mant, -d.exp)
      frac == IF d.exp >= 0 THEN <<>> ELSE LowBits(d.mant, -d.exp)
  IN [seconds |-> sign * Small(whole),
      microseconds |->
        sign * Small(RoundToInteger(RoundBits(BigMul(frac, Big(10 ^ 6)),
                                              d.exp)))]

(***************************************************************************)
(* datetime.strptime(s, ts_format), datetime + timedelta and                *)
(* datetime.strftime(ts_format) for ts_format = '%Y-%m-%d %H:%M:%S.%f'. A   *)
(* datetime is [year, month, day, hour, minute, second, microsecond].       *)
(***************************************************************************)

\* str(n) of an integer n >= 0.
RECURSIVE NatToStr(_)
NatToStr(n) ==
  IF n < 10 THEN <<48 + n>>
  ELSE Append(NatToStr(n \div 10), 48 + (n % 10))

IntToStr(n) == IF n < 0 THEN Text("-") \o NatToStr(-n) ELSE NatToStr(n)

\* '%0<width>d' % n, given str(n), n >= 0.
RECURSIVE ZeroPad(_, _)
ZeroPad(t, width) == IF Len(t) >= width THEN t ELSE ZeroPad(Text("0") \o t, width)

\* The length of the run of ASCII digits of s that starts at position i.
DigitRunLength(s, i) ==
  (CHOOSE j \in i..(Len(s) + 1) :
     /\ \A k \in i..(j - 1) : s[k] >= 48 /\ s[k] <= 57
     /\ (j <= Len(s) => ~(s[j] >= 48 /\ s[j] <= 57))) - i

\* The length of the run of whitespace of s that starts at position i.
SpaceRunLength(s, i) ==
  (CHOOSE j \in i..(Len(s) + 1) :
     /\ \A k \in i..(j - 1) : IsSpace(s[k])
     /\ (j <= Len(s) => ~IsSpace(s[j]))) - i

IsLeapYear(y) == y % 4 = 0 /\ (y % 100 # 0 \/ y % 400 = 0)

DaysInMonth(y, m) ==
  IF m = 2 THEN (IF IsLeapYear(y) THEN 29 ELSE 28)
  ELSE IF m \in {4, 6, 9, 11} THEN 30 ELSE 31

\* The days of the year y before its month m.
DaysBeforeMonth(y, m) ==
  LET D[k \in 1..12] == IF k = 1 THEN 0 ELSE D[k - 1] + DaysInMonth(y, k - 1)
  IN D[m]

\* date.toordinal(): the number of the day, 1 for 0001-01-01.
ToOrdinal(y, m, d) ==
  LET p == y - 1
  IN p * 365 + (p \div 4) - (p \div 100) + (p \div 400) + DaysBeforeMonth(y, m) + d

\* date.fromordinal(n), as <<year, month, day>>.
FromOrdinal(n) ==
  LET n0 == n - 1
      n400 == n0 \div 146097
      r400 == n0 % 146097
      n100 == r400 \div 36524
      r100 == r400 % 36524
      n4 == r100 \div 1461
      r4 == r100 % 1461
      n1 == r4 \div 365
      r1 == r4 % 365
      y == n400 * 400 + n100 * 100 + n4 * 4 + n1 + 1
      m == CHOOSE k \in 1..12 :
             /\ DaysBeforeMonth(y, k) <= r1
             /\ r1 < DaysBeforeMonth(y, k) + DaysInMonth(y, k)
  IN IF n1 = 4 \/ n100 = 4 THEN <<y - 1, 12, 31>>
     ELSE <<y, m, r1 - DaysBeforeMonth(y, m) + 1>>

\* Line 146: ts_format.
TsFormat == Text("%Y-%m-%d %H:%M:%S.%f")

\* What Scan gives for a str that does not match the format.
NoMatch == <<-1>>

\* The character classes of the patterns of strptime: an ASCII digit lo..hi, any
\* decimal digit (\d), a space.
Range(lo, hi) == [class |-> "range", lo |-> 48 + lo, hi |-> 48 + hi]

AnyDigit == [class |-> "digit"]

InClass(cls, c) ==
  CASE cls.class = "range" -> cls.lo <= c /\ c <= cls.hi
    [] cls.class = "digit" -> IsDigit(c)
    [] cls.class = "blank" -> c = 32

\* The pattern of strptime for the directive of the letter item, as the list of
\* its alternatives, which are tried in order (%f apart, see Directive).
Alternatives(item) ==
  CASE item = Ord("Y") -> << <<AnyDigit, AnyDigit, AnyDigit, AnyDigit>> >>
    [] item = Ord("m") -> << <<Range(1, 1), Range(0, 2)>>,
                            <<Range(0, 0), Range(1, 9)>>,
                            <<Range(1, 9)>> >>
    [] item = Ord("d") -> << <<Range(3, 3), Range(0, 1)>>,
                            <<Range(1, 2), AnyDigit>>,
                            <<Range(0, 0), Range(1, 9)>>,
                            <<Range(1, 9)>>,
                            <<[class |-> "blank"], Range(1, 9)>> >>
    [] item = Ord("H") -> << <<Range(2, 2), Range(0, 3)>>,
                            <<Range(0, 1), AnyDigit>>,
                            <<AnyDigit>> >>
    [] item = Ord("M") -> << <<Range(0, 5), AnyDigit>>, <<AnyDigit>> >>
    [] item = Ord("S") -> << <<Range(6, 6), Range(0, 1)>>,
                            <<Range(0, 5), AnyDigit>>,
                            <<AnyDigit>> >>

\* The alternative alt matches s at position i.
AlternativeMatches(alt, s, i) ==
  /\ i + Len(alt) - 1 <= Len(s)
  /\ \A k \in 1..Len(alt) : InClass(alt[k], s[i + k - 1])

\* int(t) of the text t that a directive has matched: digits, after a space for
\* a day.
MatchedValue(t) ==
  LET V[i \in 0..Len(t)] ==
        IF i = 0 THEN 0
        ELSE IF IsDigit(t[i]) THEN 10 * V[i - 1] + DigitValue(t[i]) ELSE V[i - 1]
  IN V[Len(t)]

\* The first of the alternatives alts that matches s at position i: whether
\* there is one (ok), the number of characters it takes and their value.
FirstAlternative(alts, s, i) ==
  IF \E a \in 1..Len(alts) : AlternativeMatches(alts[a], s, i)
  THEN LET a == CHOOSE x \in 1..Len(alts) :
                  /\ AlternativeMatches(alts[x], s, i)
                  /\ \A y \in 1..(x - 1) : ~AlternativeMatches(alts[y], s, i)
       IN [ok |-> TRUE, len |-> Len(alts[a]),
           value |-> MatchedValue(SubSeq(s, i, i + Len(alts[a]) - 1))]
  ELSE [ok |-> FALSE, len |-> 0, value |-> 0]

\* %f at position i of s: one to six ASCII digits, as many as there are; the
\* value is that of the digits filled up to six with zeros on the right.
Fraction(s, i) ==
  LET n == IF DigitRunLength(s, i) > 6 THEN 6 ELSE DigitRunLength(s, i)
  IN IF n >= 1
     THEN [ok |-> TRUE, len |-> n,
           value |-> MatchedValue(SubSeq(s, i, i + n - 1)) * (10 ^ (6 - n))]
     ELSE [ok |-> FALSE, len |-> 0, value |-> 0]

\* The directive of the letter item at position i of s: whether the pattern of
\* strptime for it matches there (ok), the number of characters it takes and the
\* value they denote.
Directive(item, s, i) ==
  IF item = Ord("f") THEN Fraction(s, i)
  ELSE FirstAlternative(Alternatives(item), s, i)

\* The match of the format from its position k on against s from position i on:
\* the values of the directives (after those in got), or NoMatch. A % starts a
\* directive, whitespace matches any whitespace, one character or more, and any
\* other character matches itself; the match must end where s ends.
RECURSIVE Scan(_, _, _, _)
Scan(s, i, k, got) ==
  IF k > Len(TsFormat)
  THEN IF i = Len(s) + 1 THEN got ELSE NoMatch
  ELSE IF IsSpace(TsFormat[k])
       THEN IF SpaceRunLength(s, i) >= 1
            THEN Scan(s, i + SpaceRunLength(s, i), k + 1, got)
            ELSE NoMatch
       ELSE IF TsFormat[k] # Ord("%")
            THEN IF i <= Len(s) /\ s[i] = TsFormat[k]
                 THEN Scan(s, i + 1, k + 1, got)
                 ELSE NoMatch
            ELSE IF Directive(TsFormat[k + 1], s, i).ok
                 THEN Scan(s, i + Directive(TsFormat[k + 1], s, i).len, k + 2,
                           Append(got, Directive(TsFormat[k + 1], s, i).value))
                 ELSE NoMatch

\* The datetime of the matched values g = <<Y, m, d, H, M, S, f>>, or ValueError
\* when there is no match or no such date or time.
DatetimeOf(g) ==
  IF /\ g # NoMatch
     /\ g[1] >= 1
     /\ g[3] <= DaysInMonth(g[1], g[2])
     /\ g[6] <= 59
  THEN [ok |-> TRUE,
        value |-> [year |-> g[1], month |-> g[2], day |-> g[3], hour |-> g[4],
                   minute |-> g[5], second |-> g[6], microsecond |-> g[7]]]
  ELSE [ok |-> FALSE, exc |-> "ValueError"]

\* datetime.strptime(s, ts_format): the outcome is the datetime, or ValueError.
ParseTimestamp(s) == DatetimeOf(Scan(s, 1, 1, <<>>))

\* dt + td for a timedelta td of seconds and microseconds: the outcome is the
\* datetime, or OverflowError when the date leaves the years 1..9999.
AddTimedelta(dt, td) ==
  LET total == dt.microsecond + td.microseconds
      micro == total % 1000000
      secs == dt.hour * 3600 + dt.minute * 60 + dt.second + td.seconds
                + (total \div 1000000)
      sod == secs % 86400
      day == ToOrdinal(dt.year, dt.month, dt.day) + (secs \div 86400)
      ymd == FromOrdinal(day)
  IN IF day < 1 \/ day > ToOrdinal(9999, 12, 31)
     THEN [ok |-> FALSE, exc |-> "OverflowError"]
     ELSE [ok |-> TRUE,
           value |-> [year |-> ymd[1], month |-> ymd[2], day |-> ymd[3],
                      hour |-> sod \div 3600, minute |-> (sod % 3600) \div 60,
                      second |-> sod % 60, microsecond |-> micro]]

\* dt.strftime(ts_format) (the year of the C library: not padded below 1000).
FormatTimestamp(dt) ==
  IntToStr(dt.year) \o Text("-") \o ZeroPad(IntToStr(dt.month), 2)
    \o Text("-") \o ZeroPad(IntToStr(dt.day), 2)
    \o Text(" ") \o ZeroPad(IntToStr(dt.hour), 2)
    \o Text(":") \o ZeroPad(IntToStr(dt.minute), 2)
    \o Text(":") \o ZeroPad(IntToStr(dt.second), 2)
    \o Text(".") \o ZeroPad(IntToStr(dt.microsecond), 6)

(***************************************************************************)
(* The state                                                               *)
(***************************************************************************)

VARIABLES
  username,    \* self.username
  password,    \* self.password
  study_id,    \* self.study_id
  environ,     \* os.environ, restricted to the keys the code reads
  pc,          \* where the program is: "idle"; "await_first" (inside the first
               \* requests.get of callMovebankAPI), "await_second" (inside the
               \* second); "slope_initial" (transformRawACC after line 155),
               \* "slope_chosen" (after line 163); "returned", "raised" (the
               \* operation has ended)
  calls,       \* the number of operations started so far
  params,      \* callMovebankAPI: its local variable params
  requests,    \* callMovebankAPI: the requests the running call has issued
  responses,   \* callMovebankAPI: the responses it has received; the local
               \* variable response is the last one
  stdout,      \* the lines the running operation has printed
  result,      \* the outcome of the operation once it has ended
  accevents,   \* transformRawACC: its arguments accevents,
  unit,        \*   unit
  sensitivity, \*   and sensitivity,
  tag_local_identifier, \* its local variable tag_local_identifier
  slope,       \*   and its local variable slope
  gpsevents    \* transformRawGPS: the list it is given (it changes the records)

clientVars ==
  <<username, password, study_id, environ, pc, calls, params, requests,
    responses, stdout, result>>

transformVars ==
  <<accevents, unit, sensitivity, tag_local_identifier, slope, gpsevents>>

vars == <<clientVars, transformVars>>

(***************************************************************************)
(* The inputs of the client model                                          *)
(***************************************************************************)

Usernames == {Text("alice")}

Passwords == {Text("secret")}

\* os.environ: without the keys, with one, with both holding the credentials of
\* the object, with both holding other credentials.
Environs ==
  { <<>>,
    [k \in {"mbus"} |-> Text("alice")],
    [k \in {"mbus", "mbpw"} |->
       IF k = "mbus" THEN Text("alice") ELSE Text("secret")],
    [k \in {"mbus", "mbpw"} |->
       IF k = "mbus" THEN Text("bob") ELSE Text("hunter2")] }

\* The parameter tuples of getStudies and getIndividualsByStudy.
ParamSets ==
  { << <<Text("entity_type"), Text("study")>>,
       <<Text("i_can_see_data"), Text("true")>>,
       <<Text("there_are_data_which_i_cannot_see"), Text("false")>> >>,
    << <<Text("entity_type"), Text("individual")>>,
       <<Text("study_id"), Text("2911040")>> >> }

\* Response bodies (bytes): two license texts, a table, an empty body, a body
\* with a two-byte character, a body that is not UTF-8, a near miss of the
\* marker, a body with a grave accent, a NUL and a DEL, a body that starts with a
\* byte order mark, a body with a four-byte character.
Bodies ==
  { Text("License Terms: be kind to animals"),
    Text("<p>License Terms: cite the study</p>") \o <<195, 169>>,
    Text("id,name\n1,gps"),
    <<>>,
    Text("caf") \o <<195, 169>>,
    <<255, 254>>,
    Text("license terms"),
    <<96, 0, 127>>,
    <<239, 187, 191>> \o Text("id"),
    <<240, 159, 152, 128>> }

\* An empty cookie jar; also stands for the absent cookies argument.
NoCookies == {}

\* A response of requests.get: the fields that the code reads, but url, which
\* is the url of the request (RequestUrl).
Responses ==
  [status : {200, 401, 403, 500},
   content : Bodies,
   cookies : {NoCookies, {<<Text("JSESSIONID"), Text("4f2a")>>}}]

(***************************************************************************)
(* The client: MovebankAPI.__init__ and MovebankAPI.callMovebankAPI         *)
(***************************************************************************)

\* The number of operations on one set of inputs that the model follows.
MaxCalls == 2

Endpoint == Text("https://www.movebank.org/movebank/service/direct-read")

\* The value of result while a call is running.
Pending == [pending |-> TRUE]

Returned(v) == [ok |-> TRUE, value |-> v]

Raised(e) == [ok |-> FALSE, exc |-> e]

\* The characters that a url keeps as they are in a parameter: letters, digits
\* and _ . - ~
IsUnreserved(c) ==
  \/ (c >= 48 /\ c <= 57) \/ (c >= 65 /\ c <= 90) \/ (c >= 97 /\ c <= 122)
  \/ c \in {Ord("_"), Ord("."), Ord("-"), Ord("~")}

\* A byte of a parameter as it is written in a url.
QuotedByte(c) ==
  IF IsUnreserved(c) THEN <<c>>
  ELSE IF c = 32 THEN Text("+")
  ELSE <<Ord("%"), Text("0123456789ABCDEF")[(c \div 16) + 1],
         Text("0123456789ABCDEF")[(c % 16) + 1]>>

\* A name or a value of a parameter as requests writes it in a url: its bytes
\* in UTF-8, quoted.
QuotePlus(s) == Join([i \in 1..Len(EncodeUtf8(s)) |-> QuotedByte(EncodeUtf8(s)[i])])

\* The url that requests builds from the endpoint and the parameter pairs, which
\* is response.url when the server has not redirected the request.
RequestUrl(ps) ==
  IF Len(ps) = 0 THEN Endpoint
  ELSE Endpoint
         \o Join([i \in 1..Len(ps) |->
                    (IF i = 1 THEN Text("?") ELSE Text("&"))
                      \o QuotePlus(ps[i][1]) \o Text("=") \o QuotePlus(ps[i][2])])

\* requests.get(Endpoint, params=ps, cookies=jar, auth=credentials), as issued:
\* with the url it is sent to.
Request(ps, jar, credentials) ==
  [url |-> RequestUrl(ps), params |-> ps, cookies |-> jar, auth |-> credentials]

\* 'License Terms:' in str(response.content)
HasLicenseTerms(content) ==
  Contains(BytesRepr(content), Text("License Terms:"))

\* params + (('license-md5', hash), ) with hash the digest of the body.
LicenseParams(ps, content) == Append(ps, <<Text("license-md5"), MD5Hex(content)>>)

\* (os.environ['mbus'], os.environ['mbpw']): a KeyError when a key is not set.
EnvironAuth ==
  IF "mbus" \in DOMAIN environ /\ "mbpw" \in DOMAIN environ
  THEN Returned(<<environ["mbus"], environ["mbpw"]>>)
  ELSE Raised("KeyError")

\* What a call does once a response has ended it with the decoded body.
DecodedBody(r) == DecodeUtf8(r.content)

\* The end of a call with outcome o.
EndCall(o) ==
  /\ result' = o
  /\ pc' = IF o.ok THEN "returned" ELSE "raised"

\* __init__ has run: the client holds its credentials; no call has started.
ClientInit ==
  /\ username \in Usernames
  /\ password \in Passwords
  /\ study_id = Text("2911040")
  /\ environ \in Environs
  /\ pc = "idle"
  /\ calls = 0
  /\ params = <<>>
  /\ requests = <<>>
  /\ responses = <<>>
  /\ stdout = <<>>
  /\ result = Pending

\* callMovebankAPI(p) up to its first requests.get: the request is issued with
\* the credentials of the object and no cookies.
CallMovebankAPI(p) ==
  /\ pc \in {"idle", "returned", "raised"}
  /\ calls < MaxCalls
  /\ calls' = calls + 1
  /\ params' = p
  /\ requests' = <<Request(p, NoCookies, <<username, password>>)>>
  /\ responses' = <<>>
  /\ stdout' = <<>>
  /\ result' = Pending
  /\ pc' = "await_first"
  /\ UNCHANGED <<username, password, study_id, environ>>
  /\ UNCHANGED transformVars

\* The first requests.get returns r: lines 36-58 up to the second requests.get
\* or the end of the call.
FirstResponse(r) ==
  /\ pc = "await_first"
  /\ responses' = Append(responses, r)
  /\ IF r.status = 200
     THEN IF HasLicenseTerms(r.content)
          THEN LET ps == LicenseParams(params, r.content)
               IN /\ params' = ps
                  /\ stdout' = stdout \o <<Text("Request ") \o requests[1].url,
                                           Text("Has license terms")>>
                  /\ IF EnvironAuth.ok
                     THEN /\ requests' =
                               Append(requests,
                                      Request(ps, r.cookies, EnvironAuth.value))
                          /\ pc' = "await_second"
                          /\ result' = result
                     ELSE /\ requests' = requests
                          /\ EndCall(EnvironAuth)
          ELSE /\ stdout' = Append(stdout, Text("Request ") \o requests[1].url)
               /\ EndCall(DecodedBody(r))
               /\ UNCHANGED <<params, requests>>
     ELSE /\ stdout' = stdout \o <<Text("Request ") \o requests[1].url,
                                   BytesRepr(r.content)>>
          /\ EndCall(Returned(BytesRepr(r.content)))
          /\ UNCHANGED <<params, requests>>
  /\ UNCHANGED <<username, password, study_id, environ, calls>>
  /\ UNCHANGED transformVars

\* A second-response handler that repeats the handshake when the response again
\* presents license terms: the handler that the bound on requests rules out.
SecondResponseRetrying(r) ==
  /\ pc = "await_second"
  /\ responses' = Append(responses, r)
  /\ IF r.status = 403
     THEN /\ stdout' = Append(stdout, Text("Incorrect hash"))
          /\ EndCall(Returned(<<>>))
          /\ UNCHANGED <<params, requests>>
     ELSE IF r.status = 200 /\ HasLicenseTerms(r.content) /\ Len(requests) < 3
          THEN /\ params' = LicenseParams(params, r.content)
               /\ requests' =
                    Append(requests,
                           Request(LicenseParams(params, r.content), r.cookies,
                                   EnvironAuth.value))
               /\ stdout' = Append(stdout, Text("Has license terms"))
               /\ UNCHANGED <<pc, result>>
          ELSE /\ stdout' = stdout
               /\ EndCall(DecodedBody(r))
               /\ UNCHANGED <<params, requests>>
  /\ UNCHANGED <<username, password, study_id, environ, calls>>
  /\ UNCHANGED transformVars

\* A second-response handler without lines 53-55: a refused hash is treated as
\* any other response.
SecondResponseUnchecked(r) ==
  /\ pc = "await_second"
  /\ responses' = Append(responses, r)
  /\ stdout' = stdout
  /\ EndCall(DecodedBody(r))
  /\ UNCHANGED <<username, password, study_id, environ, calls, params, requests>>
  /\ UNCHANGED transformVars

\* The second requests.get returns r: lines 53-56.
SecondResponse(r) ==
  /\ pc = "await_second"
  /\ responses' = Append(responses, r)
  /\ IF r.status = 403
     THEN /\ stdout' = Append(stdout, Text("Incorrect hash"))
          /\ EndCall(Returned(<<>>))
     ELSE /\ stdout' = stdout
          /\ EndCall(DecodedBody(r))
  /\ UNCHANGED <<username, password, study_id, environ, calls, params, requests>>
  /\ UNCHANGED transformVars

\* requests.get raises instead of returning a response (no connection, ...):
\* the exception leaves callMovebankAPI.
TransportFailure ==
  /\ pc \in {"await_first", "await_second"}
  /\ EndCall(Raised("RequestException"))
  /\ UNCHANGED <<username, password, study_id, environ, calls, params, requests,
                 responses, stdout>>
  /\ UNCHANGED transformVars

(***************************************************************************)
(* The inputs of the transformations                                       *)
(***************************************************************************)

\* The longest list of records given to a transformation.
MaxBatch == 2

\* The sequences over S of length 0..n.
SeqsUpTo(S, n) == UNION {[1..k -> S] : k \in 0..n}

\* The tag identifiers of the slope model are -TagLimit..TagLimit.
TagLimit == 5000

Sensitivities == {Text("low"), Text("high")}

\* A first-generation record with two samples.
BaseEvent ==
  [tag_local_identifier |-> Text("1500"),
   deployment_id |-> Text("77"),
   acceleration_sampling_frequency_per_axis |-> Text("10"),
   timestamp |-> Text("2020-01-01 00:00:00.000000"),
   accelerations_raw |-> Text("2048 2048 2048 3048 1048 2049")]

\* The records of the acceleration model: records of the three device
\* generations, a record whose raw list is no multiple of three long, records
\* with one field that cannot be used, a record written with other whitespace
\* (no-break space 160, form feed 12, line tabulation 11, file separator 28),
\* Arabic-Indic digits (1632..1641) and a day padded with a space, a record
\* whose frequency starts with a separator that float does not skip, a
\* record whose second sample lies after the last day of the year 9999, and
\* a record of ten samples whose last offset, 9 / 16000 s, is 562.5 us as a
\* fraction and a little more as the double that the code computes.
AccEvents ==
  { BaseEvent,
    [BaseEvent EXCEPT !.tag_local_identifier = Text("5000")],
    [BaseEvent EXCEPT !.tag_local_identifier = Text("2242"),
                      !.accelerations_raw = Text("2047 2049 0")],
    [BaseEvent EXCEPT !.tag_local_identifier = Text("5000"),
                      !.deployment_id = Text("78"),
                      !.acceleration_sampling_frequency_per_axis = Text("20.0"),
                      !.timestamp = Text("2020-02-29 23:59:59.950000"),
                      !.accelerations_raw =
                         Text("4095 0 2048\t2560 1536 2048\n")],
    [BaseEvent EXCEPT !.accelerations_raw = Text("2048 2049 2050 2051")],
    [BaseEvent EXCEPT !.acceleration_sampling_frequency_per_axis = Text("0")],
    [BaseEvent EXCEPT !.acceleration_sampling_frequency_per_axis = Text("")],
    [BaseEvent EXCEPT !.accelerations_raw = Text("2048 x 2050")],
    [BaseEvent EXCEPT !.timestamp = Text("2020-01-01T00:00:00")],
    [BaseEvent EXCEPT !.tag_local_identifier = Text("")],
    [BaseEvent EXCEPT !.tag_local_identifier = <<160, 1633, 1637, 1632, 1632>>,
                      !.acceleration_sampling_frequency_per_axis =
                         <<12>> \o Text("10"),
                      !.timestamp =
                         Text("2020-01- 1") \o <<12>> \o Text("00:00:00.5"),
                      !.accelerations_raw =
                         Text("2048") \o <<11>> \o Text("2049") \o <<28>>
                           \o Text("2050")],
    [BaseEvent EXCEPT !.acceleration_sampling_frequency_per_axis =
                         <<28>> \o Text("10")],
    [BaseEvent EXCEPT !.timestamp = Text("9999-12-31 23:59:59.950000")],
    [BaseEvent EXCEPT !.acceleration_sampling_frequency_per_axis =
                         Text("16000"),
                      !.accelerations_raw =
                         Text("2048 2049 2050 2051 2052 2053 2054 2055 2056 2057 ")
                           \o Text("2058 2059 2060 2061 2062 2063 2064 2065 2066 ")
                           \o Text("2067 2068 2069 2070 2071 2072 2073 2074 2075 ")
                           \o Text("2076 2077")] }

\* A field of a record of transformRawGPS holds a str, or a float once the
\* function has converted it.
Str(s) == [str |-> s]

Float(f) == [float |-> f]

IsStr(v) == DOMAIN v = {"str"}

\* The records of the location model, as the CSV reader gives them; the
\* coordinates as text: empty, numbers, no number, a number after a form feed.
GpsEvents ==
  { [timestamp |-> Text("2020-01-01 00:00:00.000"),
     deployment_id |-> d,
     location_lat |-> Str(lat),
     location_long |-> Str(long)] :
      d \in {Text("77"), Text("")},
      lat \in {Text(""), Text("47.5"), Text("abc"), Text(" -8.25"),
               <<12>> \o Text("1.5")},
      long \in {Text(""), Text("8.25"), Text("x"), Text("1e1")} }

(***************************************************************************)
(* MovebankAPI.transformRawACC                                             *)
(***************************************************************************)

\* The product of two finite floats.
Mul(a, b) == Finite(a.num * b.num, a.den * b.den)

\* Lines 149-152: unitfactor.
UnitFactor(u) == IF u = Text("g") THEN Finite(1, 1) ELSE Finite(981, 100)

\* Lines 155-163 with the first comparison off by one (tag < 2241): a table that
\* the slope property must tell apart from the one of the code.
SlopeExclusiveBoundary(tag, sens) ==
  IF tag < 2241
  THEN IF sens = Text("low") THEN Finite(27, 10000) ELSE Finite(1, 1000)
  ELSE IF 2242 <= tag /\ tag <= 4117
       THEN Finite(22, 10000)
       ELSE Finite(1, 512)

\* Lines 155-163: the slope for a tag identifier and a sensitivity.
Slope(tag, sens) ==
  IF tag <= 2241
  THEN IF sens = Text("low") THEN Finite(27, 10000) ELSE Finite(1, 1000)
  ELSE IF 2242 <= tag /\ tag <= 4117
       THEN Finite(22, 10000)
       ELSE Finite(1, 512)

\* A word of s starts at position i: a character that is no whitespace, after
\* whitespace or at the start.
WordStart(s, i) == ~IsSpace(s[i]) /\ (i = 1 \/ IsSpace(s[i - 1]))

\* The position of the last character of the word of s that holds position i.
WordEnd(s, i) ==
  CHOOSE j \in i..Len(s) :
    /\ \A k \in i..j : ~IsSpace(s[k])
    /\ (j < Len(s) => IsSpace(s[j + 1]))

\* s.split(): the words between the whitespace.
Split(s) ==
  Join([i \in 1..Len(s) |->
          IF WordStart(s, i) THEN <<SubSeq(s, i, WordEnd(s, i))>> ELSE <<>>])

\* list(map(int, words)): the outcome is the list of integers, or ValueError.
IntsOf(words) ==
  IF \A i \in 1..Len(words) : ParseInt(words[i]).ok
  THEN [ok |-> TRUE, value |-> [i \in 1..Len(words) |-> ParseInt(words[i]).value]]
  ELSE [ok |-> FALSE, exc |-> "ValueError"]

\* Line 171: list(map(int, s.split())): the outcome is the list of integers, or
\* ValueError.
RawInts(s) == IntsOf(Split(s))

\* 1 / f for the outcome f of float: the outcome is the double, or the
\* exception of float, or ZeroDivisionError.
Reciprocal(f) ==
  IF ~f.ok THEN f
  ELSE IF f.value = NaN THEN [ok |-> TRUE, value |-> NaN]
  ELSE IF DOMAIN f.value = {"inf"}
       THEN [ok |-> TRUE, value |-> [neg |-> f.value.inf < 0, mant |-> <<>>, exp |-> 0]]
  ELSE IF f.value.num = 0 THEN [ok |-> FALSE, exc |-> "ZeroDivisionError"]
  ELSE [ok |-> TRUE, value |-> DoubleReciprocal(DoubleOf(f.value))]

\* Lines 167-168: 1 / float(frequency).
SamplePeriod(frequency) == Reciprocal(ParseFloat(frequency))

\* Lines 174-177: the outcomes of parsedts + timedelta(seconds=seconds * x) for
\* x = 0..n-1, seconds being a double.
Timestamps(parsedts, seconds, n) ==
  [k \in 1..n |->
     AddTimedelta(parsedts, Timedelta(DoubleTimes(seconds, k - 1)))]

\* Lines 181-185: the samples (timestamp, deployment, x, y, z) for the
\* timestamps ts and the raw values; OverflowError when a timestamp of lines
\* 174-177 could not be computed.
Samples(deploym, ts, raw, slp, unitfactor) ==
  IF \E k \in 1..Len(ts) : ~ts[k].ok
  THEN [ok |-> FALSE, exc |-> "OverflowError"]
  ELSE [ok |-> TRUE,
        value |-> [k \in 1..Len(ts) |->
                     <<FormatTimestamp(ts[k].value), deploym,
                       Mul(Mul(Finite(raw[3 * k - 2] - 2048, 1), slp), unitfactor),
                       Mul(Mul(Finite(raw[3 * k - 1] - 2048, 1), slp), unitfactor),
                       Mul(Mul(Finite(raw[3 * k] - 2048, 1), slp), unitfactor)>>]]

\* Lines 173-186 for one record, given the outcomes of its lines 167-171: the
\* outcome is the list of its samples, or the first exception.
EventSamples(deploym, seconds, parsedts, raw, slp, unitfactor) ==
  IF ~seconds.ok THEN seconds
  ELSE IF ~parsedts.ok THEN parsedts
  ELSE IF ~raw.ok THEN raw
  ELSE IF seconds.value = NaN
       THEN IF Len(raw.value) \div 3 > 0
            THEN [ok |-> FALSE, exc |-> "ValueError"]
            ELSE [ok |-> TRUE, value |-> <<>>]
  ELSE Samples(deploym,
               Timestamps(parsedts.value, seconds.value, Len(raw.value) \div 3),
               raw.value, slp, unitfactor)

\* Lines 165-186, the body of the loop for one record: the outcome is the list
\* appended to out, or the exception that leaves the loop.
TransformEvent(event, slp, unitfactor) ==
  EventSamples(event.deployment_id,
               SamplePeriod(event.acceleration_sampling_frequency_per_axis),
               ParseTimestamp(event.timestamp),
               RawInts(event.accelerations_raw),
               slp, unitfactor)

\* The loop over the outcomes outs of its bodies: the list out of all of them,
\* or the exception of the first body that raises.
LoopOutcome(outs) ==
  IF \A i \in 1..Len(outs) : outs[i].ok
  THEN [ok |-> TRUE, value |-> [i \in 1..Len(outs) |-> outs[i].value]]
  ELSE outs[CHOOSE i \in 1..Len(outs) :
              ~outs[i].ok /\ \A j \in 1..(i - 1) : outs[j].ok]

\* Lines 155-187 once line 154 has given the outcome tag.
WithTag(events, tag, u, sens) ==
  IF ~tag.ok THEN tag
  ELSE LoopOutcome([i \in 1..Len(events) |->
                      TransformEvent(events[i], Slope(tag.value, sens),
                                     UnitFactor(u))])

\* transformRawACC(events, u, sens): the outcome is the list out, one list of
\* samples for each record, or the exception that leaves the function.
transformRawACC(events, u, sens) ==
  IF Len(events) = 0 THEN [ok |-> FALSE, exc |-> "IndexError"]
  ELSE WithTag(events, ParseInt(events[1].tag_local_identifier), u, sens)

\* Line 154: int(accevents[0]['tag_local_identifier']).
FirstTag(events) ==
  IF Len(events) = 0 THEN [ok |-> FALSE, exc |-> "IndexError"]
  ELSE ParseInt(events[1].tag_local_identifier)

\* What a call leaves in the local variables tag_local_identifier and slope,
\* given the outcome tag of line 154.
LocalsAfter(tag) ==
  /\ tag_local_identifier' = IF tag.ok THEN tag.value ELSE tag_local_identifier
  /\ slope' = IF tag.ok THEN Slope(tag.value, sensitivity) ELSE slope

\* A call transformRawACC(accevents, unit, sensitivity).
CallTransformRawACC ==
  /\ pc = "idle"
  /\ calls < MaxCalls
  /\ calls' = calls + 1
  /\ LocalsAfter(FirstTag(accevents))
  /\ result' = transformRawACC(accevents, unit, sensitivity)
  /\ pc' = IF result'.ok THEN "returned" ELSE "raised"
  /\ UNCHANGED <<accevents, unit, sensitivity, gpsevents, stdout>>
  /\ UNCHANGED <<username, password, study_id, environ, params, requests, responses>>

\* Lines 157-163 of transformRawACC: the slope is chosen.
ChooseSlope ==
  /\ pc = "slope_initial"
  /\ slope' = Slope(tag_local_identifier, sensitivity)
  /\ pc' = "slope_chosen"
  /\ UNCHANGED <<accevents, unit, sensitivity, tag_local_identifier, gpsevents>>
  /\ UNCHANGED <<username, password, study_id, environ, calls, params, requests,
                 responses, stdout, result>>

(***************************************************************************)
(* MovebankAPI.transformRawGPS                                             *)
(***************************************************************************)

\* float(v.str), as the value of a field.
FloatField(f) == IF f.ok THEN [ok |-> TRUE, value |-> Float(f.value)] ELSE f

\* Lines 125-126 (and 127-128) for one coordinate holding v: the outcome is the
\* value the field holds afterwards, or the exception of len or float.
ConvertCoordinate(v) ==
  IF ~IsStr(v) THEN [ok |-> FALSE, exc |-> "TypeError"]
  ELSE IF Len(v.str) > 0 THEN FloatField(ParseFloat(v.str))
  ELSE [ok |-> TRUE, value |-> v]

\* Lines 131-132: the tuple returned for the record e, with the record as it is
\* left and the lines printed for it.
Fix(e, printed) ==
  [event |-> e,
   printed |-> printed,
   fix |-> <<e.timestamp, e.deployment_id, e.location_lat, e.location_long>>]

\* Lines 129-130: an exception in the try block is caught and reported.
Except(e) == Fix(e, <<Text("Could not parse long/lat.")>>)

\* Lines 127-128 with the outcome long, on the record e as line 126 left it.
WithLongitude(e, long) ==
  IF long.ok THEN Fix([e EXCEPT !.location_long = long.value], <<>>)
  ELSE Except(e)

\* Lines 125-126 with the outcome lat; the longitude is converted after the
\* latitude, inside the same try block.
WithLatitude(e, lat) ==
  IF lat.ok
  THEN WithLongitude([e EXCEPT !.location_lat = lat.value],
                     ConvertCoordinate(e.location_long))
  ELSE Except(e)

\* Lines 123-132, transform(e).
transform(e) == WithLatitude(e, ConvertCoordinate(e.location_lat))

\* The list of what transform gave for each record, as the records left, the
\* lines printed and the list returned.
Gather(ts) ==
  LET Printed[i \in 0..Len(ts)] ==
        IF i = 0 THEN <<>> ELSE Printed[i - 1] \o ts[i].printed
  IN [events |-> [i \in 1..Len(ts) |-> ts[i].event],
      printed |-> Printed[Len(ts)],
      value |-> [i \in 1..Len(ts) |-> ts[i].fix]]

\* Line 134: [transform(e) for e in events].
transformRawGPS(events) == Gather([i \in 1..Len(events) |-> transform(events[i])])

\* What a call with the outcome t leaves.
AfterGPS(t) ==
  /\ gpsevents' = t.events
  /\ stdout' = stdout \o t.printed
  /\ result' = Returned(t.value)

\* A call transformRawGPS(gpsevents).
CallTransformRawGPS ==
  /\ pc \in {"idle", "returned"}
  /\ calls < MaxCalls
  /\ calls' = calls + 1
  /\ AfterGPS(transformRawGPS(gpsevents))
  /\ pc' = "returned"
  /\ UNCHANGED <<accevents, unit, sensitivity, tag_local_identifier, slope>>
  /\ UNCHANGED <<username, password, study_id, environ, params, requests, responses>>

(***************************************************************************)
(* The specifications                                                      *)
(***************************************************************************)

\* No transformation is running and none has run.
TransformIdle ==
  /\ accevents = <<>>
  /\ unit = Text("m/s2")
  /\ sensitivity = Text("high")
  /\ tag_local_identifier = 0
  /\ slope = Finite(1, 1000)
  /\ gpsevents = <<>>

\* A client has been constructed and has made no call.
ClientIdle ==
  /\ username = Text("alice")
  /\ password = Text("secret")
  /\ study_id = Text("2911040")
  /\ environ = <<>>
  /\ calls = 0
  /\ params = <<>>
  /\ requests = <<>>
  /\ responses = <<>>
  /\ stdout = <<>>
  /\ result = Pending

Init == ClientInit /\ TransformIdle

Next ==
  \/ \E p \in ParamSets : CallMovebankAPI(p)
  \/ \E r \in Responses : FirstResponse(r)
  \/ \E r \in Responses : SecondResponse(r)
  \/ TransportFailure

\* The client: calls of callMovebankAPI against every server.
Spec == Init /\ [][Next]_vars

SlopeInit ==
  /\ ClientIdle
  /\ pc = "slope_initial"
  /\ accevents = <<>>
  /\ unit = Text("m/s2")
  /\ sensitivity \in Sensitivities
  /\ tag_local_identifier \in (-TagLimit)..TagLimit
  /\ slope = Finite(1, 1000)
  /\ gpsevents = <<>>

\* transformRawACC between its lines 155 and 165, for every tag identifier.
SlopeSpec == SlopeInit /\ [][ChooseSlope]_vars

AccInit ==
  /\ ClientIdle
  /\ pc = "idle"
  /\ accevents \in SeqsUpTo(AccEvents, MaxBatch)
  /\ unit \in {Text("m/s2"), Text("g")}
  /\ sensitivity \in Sensitivities
  /\ tag_local_identifier = 0
  /\ slope = Finite(1, 1000)
  /\ gpsevents = <<>>

\* transformRawACC on every list of records.
AccSpec == AccInit /\ [][CallTransformRawACC]_vars

GpsInit ==
  /\ ClientIdle
  /\ pc = "idle"
  /\ accevents = <<>>
  /\ unit = Text("m/s2")
  /\ sensitivity = Text("high")
  /\ tag_local_identifier = 0
  /\ slope = Finite(1, 1000)
  /\ gpsevents \in SeqsUpTo(GpsEvents, MaxBatch)

\* transformRawGPS on every list of records, and again on the list it leaves.
GpsSpec == GpsInit /\ [][CallTransformRawGPS]_vars

(***************************************************************************)
(* Properties of callMovebankAPI (specification Spec)                      *)
(***************************************************************************)

\* The call has ended, by returning or by raising.
Ended == pc \in {"returned", "raised"}

\* The first response of the current call is 200 and presents license terms.
HandshakeTriggered ==
  /\ Len(responses) >= 1
  /\ responses[1].status = 200
  /\ HasLicenseTerms(responses[1].content)

\* The last response the current call has received.
FinalResponse == responses[Len(responses)]

\* C1: whenever the first response has status 200 and its body contains the
\* marker, exactly one second request is issued; its parameters are the original
\* parameters, in order, followed by the pair ("license-md5", hex MD5 digest of
\* the raw body of the first response), and it carries the cookies of the first
\* response.
C1_HandshakeRequest ==
  HandshakeTriggered =>
    /\ Len(requests) = 2
    /\ requests[2].cookies = responses[1].cookies
    /\ requests[2].params =
         Append(requests[1].params,
                <<Text("license-md5"), MD5Hex(responses[1].content)>>)

\* C2: for every sequence of responses, one call issues at most two requests and
\* then ends: a second request is issued only after a first response that is 200
\* with the license marker, there is never a third request, and the call has
\* ended as soon as the last request it issued has been answered, also when the
\* second response presents license terms again.
C2_AtMostTwoRequests ==
  /\ Len(requests) <= 2
  /\ Len(responses) <= Len(requests)
  /\ (Len(requests) = 2 => HandshakeTriggered)
  /\ (Len(requests) >= 1 /\ Len(responses) = Len(requests) => Ended)
  /\ (Len(responses) = 2 => Ended)

\* C2, its case: the second response is 200 and presents license terms again,
\* and the call has returned after two requests.
C2_SecondLicenseReturned ==
  /\ Len(requests) = 2
  /\ Len(responses) = 2
  /\ responses[2].status = 200
  /\ HasLicenseTerms(responses[2].content)
  /\ pc = "returned"

\* C3: if the handshake was triggered and the second response has status 403,
\* the call returns the empty string: it raises nothing and returns the body of
\* neither response.
C3_RefusedHashReturnsEmpty ==
  (Len(responses) = 2 /\ responses[2].status = 403) =>
    /\ HandshakeTriggered
    /\ pc = "returned"
    /\ result = Returned(<<>>)

\* C3, its case: a second response with status 403 and a body that is not
\* empty has been received, and the call has returned the empty string.
C3_RefusedHashWithBody ==
  /\ Len(responses) = 2
  /\ responses[2].status = 403
  /\ responses[2].content # <<>>
  /\ DecodedBody(responses[2]).ok
  /\ pc = "returned"
  /\ result = Returned(<<>>)

\* C4: a call that returns gives the decoded body of its final response exactly
\* when that response has status 200; for any other status (but the 403 of the
\* second leg, which gives the empty string) it gives the textual error payload
\* of the failure response, the str of its content, and never its decoded body.
C4_BodyOnlyOnSuccess ==
  (pc = "returned" /\ Len(responses) >= 1) =>
    IF Len(responses) = 2 /\ FinalResponse.status = 403
    THEN result = Returned(<<>>)
    ELSE IF FinalResponse.status = 200
         THEN result = DecodedBody(FinalResponse)
         ELSE /\ result = Returned(BytesRepr(FinalResponse.content))
              /\ result # DecodedBody(FinalResponse)

\* C5: the second request is authenticated with the credentials of the first,
\* the username and password the object holds since its construction, and no
\* call changes them.
C5_SameCredentials ==
  /\ username \in Usernames /\ password \in Passwords
  /\ (Len(requests) >= 1 => requests[1].auth = <<username, password>>)
  /\ (Len(requests) = 2 => requests[2].auth = requests[1].auth)

(***************************************************************************)
(* Properties of the slope (specification SlopeSpec)                       *)
(***************************************************************************)

\* The buckets of the calibration table a tag identifier t falls in: 1 for the
\* first generation, 2 for the second, 3 for the later ones.
BucketsOf(t) ==
  {b \in 1..3 : \/ b = 1 /\ t <= 2241
                \/ b = 2 /\ 2242 <= t /\ t <= 4117
                \/ b = 3 /\ t > 4117}

\* C6: the slope chosen is a total function of the tag identifier t and the
\* sensitivity: t <= 2241 gives 0.0027 for low and 0.001 for high sensitivity,
\* 2242 <= t <= 4117 gives 0.0022 and t > 4117 gives 1/512 for either
\* sensitivity, and exactly one bucket applies to each t.
C6_SlopeTable ==
  pc = "slope_chosen" =>
    /\ Cardinality(BucketsOf(tag_local_identifier)) = 1
    /\ (tag_local_identifier <= 2241 /\ sensitivity = Text("low")
          => slope = [num |-> 27, den |-> 10000])
    /\ (tag_local_identifier <= 2241 /\ sensitivity = Text("high")
          => slope = [num |-> 1, den |-> 1000])
    /\ (2242 <= tag_local_identifier /\ tag_local_identifier <= 4117
          => slope = [num |-> 11, den |-> 5000])
    /\ (tag_local_identifier > 4117 => slope = [num |-> 1, den |-> 512])

\* C6, its case: the slope has been chosen for the last tag of the first
\* generation with low sensitivity.
C6_FirstGenerationBoundary ==
  /\ pc = "slope_chosen"
  /\ tag_local_identifier = 2241
  /\ sensitivity = Text("low")
  /\ slope = [num |-> 27, den |-> 10000]

(***************************************************************************)
(* Properties of transformRawGPS (specification GpsSpec)                   *)
(***************************************************************************)

\* What a coordinate field holding the str v is to become when it is handled on
\* its own: its real value if it is not empty and float accepts it, else v.
CoordinateAlone(v) ==
  IF Len(v.str) > 0 /\ ParseFloat(v.str).ok
  THEN Float(ParseFloat(v.str).value)
  ELSE v

\* C7: on records whose coordinates are strs, transformRawGPS raises nothing and
\* returns timestamp and deployment_id unchanged, and each coordinate is handled
\* independently of the other: a coordinate that is not empty and parses is
\* returned as its real value, one that is empty or does not parse is returned
\* as its original str, whatever the other coordinate holds.
C7_CoordinatesIndependent ==
  [][ pc = "idle" =>
        /\ pc' = "returned"
        /\ result'.ok
        /\ Len(result'.value) = Len(gpsevents)
        /\ \A i \in 1..Len(gpsevents) :
             result'.value[i] = <<gpsevents[i].timestamp,
                                  gpsevents[i].deployment_id,
                                  CoordinateAlone(gpsevents[i].location_lat),
                                  CoordinateAlone(gpsevents[i].location_long)>> ]_vars

(***************************************************************************)
(* Properties of transformRawACC (specification AccSpec)                   *)
(***************************************************************************)

\* The samples of the record e decoded with the slope slp, as the loop body
\* gives them.
SamplesWith(e, slp) == TransformEvent(e, slp, UnitFactor(unit))

\* The slope the calibration table gives for the record's own tag identifier.
OwnSlope(e) == Slope(ParseInt(e.tag_local_identifier).value, sensitivity)

\* C8: every record of a decoded batch, at any position, is calibrated with the
\* slope the table gives for its own tag_local_identifier and the requested
\* sensitivity, also when the records of the batch are of different device
\* generations.
C8_OwnSlopePerRecord ==
  pc = "returned" =>
    \A i \in 1..Len(accevents) :
      ParseInt(accevents[i].tag_local_identifier).ok =>
        result.value[i] = SamplesWith(accevents[i], OwnSlope(accevents[i])).value

\* C9: a record whose accelerations_raw holds a number of integers that is no
\* multiple of 3 makes transformRawACC fail loudly: the function never returns
\* samples for the record, with nothing raised and nothing printed, from which
\* the trailing one or two raw values have been dropped.
C9_NoSilentTruncation ==
  (pc = "returned" /\ stdout = <<>>) =>
    \A i \in 1..Len(accevents) :
      3 * Len(result.value[i]) = Len(RawInts(accevents[i].accelerations_raw).value)

\* C10: a data-quality failure of one record (sampling frequency zero or
\* unparsable, malformed raw list, unparsable timestamp) is confined to that
\* record: every record of the batch that can be decoded, before or after the
\* failing one, has its samples returned to the caller.
C10_FailureConfined ==
  (Ended /\ FirstTag(accevents).ok) =>
    \A i \in 1..Len(accevents) :
      SamplesWith(accevents[i], slope).ok =>
        /\ result.ok
        /\ \E j \in 1..Len(result.value) :
             result.value[j] = SamplesWith(accevents[i], slope).value

=============================================================================
